---- MODULE Spec2Model ----
(***************************************************************************)
(* Turn coordination of the emotional voice assistant:                     *)
(*   - FillerSoundManager (filler_manager.py): the cancellable filler race *)
(*   - LatencyTracker (agent.py): stage marks and the latency report       *)
(*   - EmotionalVoiceAssistant.llm_node / tts_node (agent.py)              *)
(* asyncio tasks are modelled at the granularity of the event loop: a      *)
(* future completes (timer fires, frame captured) in one step and the task *)
(* that awaits it is resumed in a later step; Task.cancel() only requests  *)
(* a CancelledError, which is delivered when the task is next resumed.     *)
(***************************************************************************)
EXTENDS Integers, Sequences, FiniteSets, TLC

\* ---------------------------------------------------------------- bounds
MaxTasks == 3      \* filler tasks alive at once
MaxTime == 2       \* the clock stops here
MaxAudio == 2      \* audio chunks of one synthesis call

\* filler_trigger_threshold_ms, in clock ticks
TriggerThreshold == 1

None == "None"
NoTask == 0

\* categories of the filler catalog (fillers_config keys)
FillerCategories == {"neutral", "happy", "sad", "angry"}

\* emotion labels a model response may carry; "furious" is in no table
Emotions == {"neutral", "happy", "furious"}

TaskIds == 1..MaxTasks

\* the preset table of cartesia_emotion_config.json (emotion_config["emotions"])
PresetTable == {"neutral", "happy", "sad", "angry"}

\* exception kinds the synthesis service may raise
ErrorKinds == {"KeyError", "JSONDecodeError", "APIError"}

\* the stage marks written by the coordinator and the session listeners
Events == {"user_speech_end", "stt_finalized", "llm_start", "llm_first_token",
           "llm_complete", "tts_start", "tts_first_chunk", "tts_complete"}

\* ------------------------------------------------------ response texts
\* A text is a sequence of tokens; a token stands for the characters named.
W == [t |-> "ws"]          \* one whitespace character
F == [t |-> "fence"]       \* a code fence, three backticks
J == [t |-> "json"]        \* the language tag json
P == [t |-> "python"]      \* some other language tag
X == [t |-> "x"]           \* a letter of plain text
BAD == [t |-> "brace"]     \* an opening brace: a truncated object
NUL == [t |-> "null"]      \* a JSON value that is not an object
Obj(f) == [t |-> "obj", f |-> f]   \* the JSON text of the object f

Restrict(f, S) == [k \in S |-> f[k]]

Keys == {"emotion", "intensity", "message"}

\* intensity is kept in tenths: 0.5 is 5
Intensities == {8}
Messages == {<<X>>}

FullPayloads ==
    {[emotion |-> e, intensity |-> i, message |-> m] :
        e \in Emotions, i \in Intensities, m \in Messages}

\* a run of n whitespace characters
Ws(n) == [i \in 1..n |-> W]

\* the longest whitespace run in a generated text
MaxWs == 1

WsRuns == {Ws(n) : n \in 0..MaxWs}
Openers == {<<>>, <<F>>, <<F, J>>, <<F, P>>}
Closers == {<<>>, <<F>>}

\* a payload with any of its keys left out
Payloads == {Restrict(p, S) : p \in FullPayloads, S \in SUBSET Keys}

Bodies == {<<>>, <<X>>, <<BAD>>, <<NUL>>} \cup {<<Obj(p)>> : p \in Payloads}

\* whitespace, opener, whitespace, body, whitespace, closer, whitespace
Wrap(w1, op, w2, body, w3, cl, w4) == w1 \o op \o w2 \o body \o w3 \o cl \o w4

Texts ==
    {Wrap(w1, op, w2, b, w3, cl, w4) :
        w1 \in WsRuns, op \in Openers, w2 \in WsRuns, b \in Bodies,
        w3 \in WsRuns, cl \in Closers, w4 \in WsRuns}

\* str.strip()
RECURSIVE LStrip(_)
LStrip(s) == IF s # <<>> /\ Head(s) = W THEN LStrip(Tail(s)) ELSE s

RECURSIVE RStrip(_)
RStrip(s) ==
    IF s # <<>> /\ s[Len(s)] = W THEN RStrip(SubSeq(s, 1, Len(s) - 1)) ELSE s

strip(s) == RStrip(LStrip(s))

\* str.startswith / str.endswith / slicing
startswith(s, p) == Len(s) >= Len(p) /\ SubSeq(s, 1, Len(p)) = p
endswith(s, p) == Len(s) >= Len(p) /\ SubSeq(s, Len(s) - Len(p) + 1, Len(s)) = p
DropFirst(s, n) == SubSeq(s, n + 1, Len(s))
DropLast(s, n) == SubSeq(s, 1, Len(s) - n)

\* StripFences without the first trim
StripFences_untrimmed(full_text) ==
    LET s0 == full_text
        s1 == IF startswith(s0, <<F, J>>) THEN DropFirst(s0, 2) ELSE s0
        s2 == IF startswith(s1, <<F>>) THEN DropFirst(s1, 1) ELSE s1
        s3 == IF endswith(s2, <<F>>) THEN DropLast(s2, 1) ELSE s2
    IN strip(s3)

\* tts_node, lines 173-180: trim, strip the fences, trim again
StripFences(full_text) ==
    LET s0 == strip(full_text)
        s1 == IF startswith(s0, <<F, J>>) THEN DropFirst(s0, 2) ELSE s0
        s2 == IF startswith(s1, <<F>>) THEN DropFirst(s1, 1) ELSE s1
        s3 == IF endswith(s2, <<F>>) THEN DropLast(s2, 1) ELSE s2
    IN strip(s3)

\* json.loads: one JSON value, whitespace allowed around it
json_loads(s) ==
    LET v == strip(s) IN
    IF Len(v) = 1 /\ v[1].t = "obj" THEN [ok |-> TRUE, kind |-> "dict", v |-> v[1].f]
    ELSE IF v = <<NUL>> THEN [ok |-> TRUE, kind |-> "null", v |-> <<>>]
    ELSE [ok |-> FALSE, kind |-> "error", v |-> <<>>]

\* dict.get(key, default)
Get(d, k, default) == IF k \in DOMAIN d THEN d[k] ELSE default

\* response_data.get("intensity", 0.5), in tenths
DefaultIntensity == 5

VARIABLES
    now,              \* time.time(), in ticks
    is_playing,       \* FillerSoundManager.is_playing
    playback_task,    \* FillerSoundManager.playback_task (NoTask = None)
    current_emotion,  \* FillerSoundManager.current_emotion
    tasks,            \* the asyncio tasks created by start_filler_timer
    played,           \* observation: playbacks begun since llm_node last started
    fillers_config,   \* FillerSoundManager.fillers_config: the catalog's categories
    attempt,          \* observation: the last playback attempt of the current race,
                      \* kept until llm_node calls the race off at its first chunk
    audio_source,     \* EmotionalVoiceAssistant.audio_source
    has_filler,       \* EmotionalVoiceAssistant.filler_manager is not None
    emotion_config,   \* emotion_config["emotions"]: the labels that have a preset
    last_emotion,     \* EmotionalVoiceAssistant.last_emotion
    voice_controls,   \* the synthesis service's experimental_voice_controls
    timestamps,       \* latency_tracker.timestamps
    llm,              \* llm_node: its position, first_token, the model stream
    text,             \* what llm_node has yielded and tts_node not yet read
    tts,              \* tts_node: its position and locals
    synth,            \* the synthesis service as tts_node drives it
    obs               \* observation only: reports and errors of the turn

fillerVars == <<is_playing, playback_task, current_emotion, tasks, played,
               fillers_config, attempt>>

coordVars == <<audio_source, has_filler, emotion_config, last_emotion, voice_controls, timestamps,
               llm, text, tts, synth, obs>>

vars == <<now, is_playing, playback_task, current_emotion, tasks, played,
          fillers_config, attempt,
          audio_source, has_filler, emotion_config, last_emotion, voice_controls, timestamps,
          llm, text, tts, synth, obs>>

NoPath == [prefix |-> None, category |-> None, idx |-> 0]

\* a task slot: st is where the coroutine is suspended; cancel is the
\* pending CancelledError, cancelBy who asked for it; note is observation
\* only: where the race was when cancel_filler was called on it
NoTaskRec ==
    [st |-> "done", cancel |-> FALSE, cancelBy |-> None, note |-> None,
     emotion |-> None, deadline |-> 0, path |-> NoPath]

\* Task.done()
TaskDone(t) == tasks[t].st = "done"

\* Task.cancel(): request a CancelledError at the task's current await;
\* the coroutine's locals are not read again
TaskCancel(ts, t, by) ==
    IF ts[t].cancel THEN ts
    ELSE [ts EXCEPT ![t] = [NoTaskRec EXCEPT !.st = ts[t].st, !.cancel = TRUE,
                                             !.cancelBy = by, !.note = ts[t].note]]

\* the race states of the scheduler, read off the task
Armed(t) == tasks[t].st \in {"new", "sleeping", "ready"} /\ ~tasks[t].cancel
Playing(t) == tasks[t].st \in {"playing", "captured", "capfailed"} /\ ~tasks[t].cancel

\* observation: cancel_filler is called on the race of task t
Note(ts, t) ==
    IF ts[t].cancel THEN ts
    ELSE [ts EXCEPT ![t].note =
             CASE ts[t].st \in {"new", "sleeping"} -> "armed"
               [] ts[t].st = "ready" -> "expired"
               [] ts[t].st = "playing" -> "playing"
               [] OTHER -> "late"]

\* asyncio.create_task: the new task takes a free slot
FreeSlots == {t \in TaskIds : TaskDone(t)}
NewSlot == CHOOSE t \in FreeSlots : \A u \in FreeSlots : t <= u

\* FillerSoundManager.set_emotion
set_emotion(emotion) ==
    current_emotion' = IF emotion \in fillers_config THEN emotion ELSE current_emotion

\* start_filler_timer that leaves the previous task running
start_filler_timer_keeps(emotion) ==
    /\ FreeSlots # {}
    /\ tasks' = [tasks EXCEPT ![NewSlot] =
                    [NoTaskRec EXCEPT !.st = "new", !.emotion = emotion]]
    /\ playback_task' = NewSlot

\* FillerSoundManager.start_filler_timer(audio_source, emotion)
start_filler_timer(emotion) ==
    /\ FreeSlots # {}
    /\ LET old == playback_task
           ts == IF old # NoTask /\ ~TaskDone(old)
                 THEN TaskCancel(tasks, old, "start_filler_timer")
                 ELSE tasks
       IN tasks' = [ts EXCEPT ![NewSlot] =
                       [NoTaskRec EXCEPT !.st = "new", !.emotion = emotion]]
    /\ playback_task' = NewSlot

\* cancel_filler that drops the handle without cancelling the task
cancel_filler_forgets ==
    IF playback_task # NoTask /\ ~TaskDone(playback_task)
    THEN /\ tasks' = Note(tasks, playback_task)
         /\ playback_task' = NoTask
    ELSE UNCHANGED <<tasks, playback_task>>

\* cancel_filler that does not ask whether the task is done
cancel_filler_unguarded ==
    IF playback_task # NoTask
    THEN /\ tasks' = TaskCancel(Note(tasks, playback_task), playback_task, "cancel_filler")
         /\ playback_task' = NoTask
    ELSE UNCHANGED <<tasks, playback_task>>

\* FillerSoundManager.cancel_filler()
cancel_filler ==
    IF playback_task # NoTask /\ ~TaskDone(playback_task)
    THEN /\ tasks' = TaskCancel(Note(tasks, playback_task), playback_task, "cancel_filler")
         /\ playback_task' = NoTask
    ELSE UNCHANGED <<tasks, playback_task>>

\* fillers per catalog category
FillersPerCategory == 2

\* FillerSoundManager.get_random_filler_path: the file name is built from
\* the emotion asked for and an index into the category actually used
FillerPaths(emotion) ==
    LET e == IF emotion = None THEN current_emotion ELSE emotion
        category == IF e \in fillers_config THEN e ELSE "neutral"
    IN {[prefix |-> e, category |-> category, idx |-> i] : i \in 1..FillersPerCategory}

\* get_random_filler_path, line 57: the default of dict.get is evaluated
\* before the lookup, so a catalog without "neutral" raises KeyError
FillerPathRaises == "neutral" \notin fillers_config

\* the generator script writes one file per catalog entry
AssetExists(path) == path.prefix \in fillers_config /\ path.idx \in 1..FillersPerCategory

\* no playback has been attempted by the current race
NoAttempt == [hint |-> None, path |-> NoPath, result |-> "none"]

\* observation: the step just taken was no call of the tracker or of
\* cancel_filler
NoCall == [op |-> "none"]

\* play_filler_sound that leaves is_playing set on its way out
play_filler_sound_exit_set == is_playing' = TRUE

\* play_filler_sound, lines 105-106: the finally clause
play_filler_sound_exit == is_playing' = FALSE

\* a task is resumed by the loop: first step, a completed await, or a
\* pending cancellation
Runnable(t) ==
    \/ tasks[t].st \in {"new", "ready", "captured", "capfailed"}
    \/ tasks[t].st \in {"sleeping", "playing"} /\ tasks[t].cancel

TimerDue(t) == tasks[t].st = "sleeping" /\ ~tasks[t].cancel /\ now >= tasks[t].deadline

\* the loop's timer callback completes the sleep future
TimerFire(t) ==
    /\ TimerDue(t)
    /\ tasks' = [tasks EXCEPT ![t].st = "ready"]
    /\ UNCHANGED <<now, is_playing, playback_task, current_emotion, played, fillers_config, attempt>>

PlayedCap == 2

\* trigger_filler_on_delay / play_filler_sound, one resumption of the task
TaskStep(t) ==
    /\ Runnable(t)
    /\ LET T == tasks[t] IN
       CASE T.st = "new" /\ T.cancel ->
              \* cancelled before its first step: the coroutine never runs
              /\ tasks' = [tasks EXCEPT ![t] = NoTaskRec]
              /\ UNCHANGED <<is_playing, played, attempt>>
         [] T.st = "new" /\ ~T.cancel ->
              \* runs up to await asyncio.sleep(delay_seconds)
              /\ tasks' = [tasks EXCEPT ![t].st = "sleeping",
                                        ![t].deadline = now + TriggerThreshold]
              /\ UNCHANGED <<is_playing, played, attempt>>
         [] T.st \in {"sleeping", "ready"} /\ T.cancel ->
              \* CancelledError raised at the sleep, swallowed at line 133
              /\ tasks' = [tasks EXCEPT ![t] = NoTaskRec]
              /\ UNCHANGED <<is_playing, played, attempt>>
         [] T.st = "ready" /\ ~T.cancel ->
              IF is_playing
              THEN /\ tasks' = [tasks EXCEPT ![t] = NoTaskRec]
                   /\ UNCHANGED <<is_playing, played, attempt>>
              ELSE IF FillerPathRaises
              THEN \* line 82 is outside the try: the KeyError ends the task
                   \* with is_playing still set
                   /\ is_playing' = TRUE
                   /\ tasks' = [tasks EXCEPT ![t] = NoTaskRec]
                   /\ attempt' = [hint |-> T.emotion, path |-> NoPath, result |-> "KeyError"]
                   /\ UNCHANGED played
              ELSE \E path \in FillerPaths(T.emotion), readable \in BOOLEAN :
                     IF AssetExists(path) /\ readable
                     THEN \* reaches await audio_source.capture_frame(frame)
                          /\ is_playing' = TRUE
                          /\ tasks' = [tasks EXCEPT ![t].st = "playing", ![t].path = path]
                          /\ played' = IF played < PlayedCap THEN played + 1 ELSE played
                          /\ attempt' = [hint |-> T.emotion, path |-> path, result |-> "opened"]
                     ELSE \* wave.open raises: except Exception, finally
                          /\ play_filler_sound_exit
                          /\ tasks' = [tasks EXCEPT ![t] = NoTaskRec]
                          /\ attempt' = [hint |-> T.emotion, path |-> path,
                                         result |-> IF AssetExists(path) THEN "unreadable"
                                                                         ELSE "missing"]
                          /\ UNCHANGED played
         [] T.st \in {"playing", "captured", "capfailed"} ->
              \* capture_frame returned, raised or was cancelled: finally
              /\ play_filler_sound_exit
              /\ tasks' = [tasks EXCEPT ![t] = NoTaskRec]
              /\ attempt' = IF attempt.result # "opened" THEN attempt
                            ELSE [attempt EXCEPT !.result =
                                     CASE T.cancel -> "cancelled"
                                       [] T.st = "capfailed" -> "rejected"
                                       [] OTHER -> "captured"]
              /\ UNCHANGED played
    /\ UNCHANGED <<now, playback_task, current_emotion, fillers_config>>

\* the audio source finishes (or rejects) the frame it was handed
CaptureDone(t) ==
    /\ tasks[t].st = "playing" /\ ~tasks[t].cancel
    /\ \E ok \in BOOLEAN :
         tasks' = [tasks EXCEPT ![t].st = IF ok THEN "captured" ELSE "capfailed"]
    /\ UNCHANGED <<now, is_playing, playback_task, current_emotion, played, fillers_config, attempt>>

\* time passes only when the loop has nothing ready to run
Tick ==
    /\ now < MaxTime
    /\ \A t \in TaskIds : ~Runnable(t) /\ ~TimerDue(t)
    /\ now' = now + 1
    /\ UNCHANGED fillerVars

\* the coordinator's variables but the observations
turnVars == <<audio_source, has_filler, emotion_config, last_emotion, voice_controls,
              timestamps, llm, text, tts, synth>>

\* observation: the step taken is not a call that obs.call records
NotACall == obs' = [obs EXCEPT !.call = NoCall]

\* ------------------------------------------------ the scheduler on its own
CallStart ==
    /\ \E e \in Emotions \cup {None} : start_filler_timer(e)
    /\ attempt' = NoAttempt
    /\ UNCHANGED <<now, is_playing, current_emotion, played, fillers_config>>
    /\ NotACall
    /\ UNCHANGED turnVars

\* the fields of the manager and the tasks it has created
Scheduler == <<is_playing, playback_task, current_emotion, tasks>>

\* observation: what a call of cancel_filler found and did; live is
\* whether some race was armed or playing, found is what playback_task
\* held, again is whether the step before was a call of cancel_filler
\* too, changed is whether the call altered the scheduler
CancelCall ==
    [op |-> "cancel_filler",
     live |-> \E t \in TaskIds : Armed(t) \/ Playing(t),
     found |-> IF playback_task = NoTask THEN "none"
               ELSE IF TaskDone(playback_task) THEN "done" ELSE "running",
     again |-> obs.call.op = "cancel_filler",
     changed |-> Scheduler' # Scheduler]

CallCancel ==
    /\ cancel_filler
    /\ UNCHANGED <<now, is_playing, current_emotion, played, fillers_config, attempt>>
    /\ obs' = [obs EXCEPT !.call = CancelCall]
    /\ UNCHANGED turnVars

FillerTimerFire == \E t \in TaskIds : TimerFire(t) /\ NotACall /\ UNCHANGED turnVars
FillerTaskStep == \E t \in TaskIds : TaskStep(t) /\ NotACall /\ UNCHANGED turnVars
FillerCaptureDone == \E t \in TaskIds : CaptureDone(t) /\ NotACall /\ UNCHANGED turnVars
ClockTick == Tick /\ NotACall /\ UNCHANGED turnVars

\* -------------------------------------------------------- LatencyTracker
\* time.time() counts seconds; the clock of the model counts ticks
TicksPerSecond == 100

\* LatencyTracker.mark; turn is observation only: the turn the caller
\* works for, seen from the turn llm_node last started ("cur"), "next" for
\* the utterance llm_node has not yet taken up, "old" for an earlier turn
mark(ts, event, turn) ==
    [e \in DOMAIN ts \cup {event} |->
        IF e = event THEN [at |-> now, turn |-> turn] ELSE ts[e]]

\* a new turn starts: what was the next turn is now the current one
Aged(ts) ==
    [e \in DOMAIN ts |-> [ts[e] EXCEPT !.turn = IF @ = "next" THEN "cur" ELSE "old"]]

\* get_duration with the operands of the subtraction exchanged
get_duration_swapped(ts, start_event, end_event) ==
    IF start_event \notin DOMAIN ts \/ end_event \notin DOMAIN ts
    THEN 0
    ELSE ((ts[start_event].at - ts[end_event].at) * 1000) \div TicksPerSecond

\* LatencyTracker.get_duration
get_duration(ts, start_event, end_event) ==
    IF start_event \notin DOMAIN ts \/ end_event \notin DOMAIN ts
    THEN 0
    ELSE ((ts[end_event].at - ts[start_event].at) * 1000) \div TicksPerSecond

\* the durations log_latency names: <<start, end>> by name
Durations ==
    [vad_to_stt |-> <<"user_speech_end", "stt_finalized">>,
     stt_to_llm |-> <<"stt_finalized", "llm_start">>,
     llm_ttft |-> <<"llm_start", "llm_first_token">>,
     llm_total |-> <<"llm_start", "llm_complete">>,
     llm_to_tts |-> <<"llm_complete", "tts_start">>,
     tts_ttfc |-> <<"tts_start", "tts_first_chunk">>,
     tts_total |-> <<"tts_start", "tts_complete">>,
     total_latency |-> <<"user_speech_end", "tts_first_chunk">>]

\* log_latency that shows a duration when either endpoint is present
LatencyReport_either(ts) ==
    LET shown == {d \in DOMAIN Durations :
                     Durations[d][1] \in DOMAIN ts \/ Durations[d][2] \in DOMAIN ts}
    IN [d \in shown |-> get_duration(ts, Durations[d][1], Durations[d][2])]

\* what log_latency writes to the log for the timeline ts
LatencyReport(ts) ==
    LET shown == {d \in DOMAIN Durations :
                     Durations[d][1] \in DOMAIN ts /\ Durations[d][2] \in DOMAIN ts}
    IN [d \in shown |-> get_duration(ts, Durations[d][1], Durations[d][2])]

NoMarks == [e \in {} |-> 0]

\* log_latency that resets the timeline only after showing a duration
log_latency_partial(ts, o) ==
    IF DOMAIN ts = {}
    THEN /\ timestamps' = ts
         /\ obs' = o
    ELSE /\ timestamps' = IF DOMAIN LatencyReport(ts) = {} THEN ts ELSE NoMarks
         /\ obs' = [o EXCEPT !.reports = @ + 1, !.report = LatencyReport(ts)]

\* LatencyTracker.log_latency, on the timeline ts and the observations o
log_latency(ts, o) ==
    IF DOMAIN ts = {}
    THEN /\ timestamps' = ts
         /\ obs' = o
    ELSE /\ timestamps' = NoMarks
         /\ obs' = [o EXCEPT !.reports = @ + 1, !.report = LatencyReport(ts)]

\* ---------------------------------------------------- the turn coordinator
\* what the model may answer in a turn
Responses ==
    { <<Obj([emotion |-> "happy", intensity |-> 8, message |-> <<X>>])>>,
      <<F, J, Obj([emotion |-> "furious", intensity |-> 8, message |-> <<X>>]), F>>,
      <<X>>,
      <<NUL>>,
      <<>> }

LlmIdle == [pc |-> "idle", first_token |-> TRUE, rest |-> <<>>]
\* tts_node's locals; path is the branch the parse step took
TtsIdle == [pc |-> "idle", full_text |-> <<>>, first_chunk |-> TRUE, path |-> "none",
            emotion |-> None, intensity |-> -1, message |-> <<>>]
SynthIdle == [calls |-> 0, input |-> <<>>, audio |-> 0]
ObsInit == [reports |-> 0, report |-> NoMarks, error |-> None, caught |-> None,
            synth_errors |-> 0, calls_after_error |-> 0, audio_after_error |-> 0,
            trace |-> <<>>, call |-> NoCall, response |-> <<>>, tts_trace |-> <<>>]

\* no turn is in flight: the session waits for the user
BetweenTurns ==
    \/ llm.pc = "idle"
    \/ llm.pc = "done" /\ tts.pc \in {"done", "failed"}

\* llm_node, lines 137-148: a new turn; up to the first wait for a chunk
LlmStart ==
    /\ BetweenTurns
    /\ \A t \in TaskIds : ~Runnable(t)
    /\ timestamps' = mark(Aged(timestamps), "llm_start", "cur")
    /\ \E r \in Responses :
         /\ llm' = [pc |-> "streaming", first_token |-> TRUE, rest |-> r]
         /\ obs' = [ObsInit EXCEPT !.response = r]
    /\ text' = <<>>
    /\ tts' = TtsIdle
    /\ synth' = SynthIdle
    /\ played' = 0
    /\ attempt' = NoAttempt
    /\ IF has_filler /\ audio_source # None
       THEN start_filler_timer(last_emotion)
       ELSE UNCHANGED <<tasks, playback_task>>
    /\ UNCHANGED <<now, is_playing, current_emotion, fillers_config>>
    /\ UNCHANGED <<audio_source, has_filler, emotion_config, last_emotion, voice_controls>>

\* observation: what llm_node did, in program order; of a run of forwarded
\* chunks the first two are recorded
Log(trace, event) ==
    IF /\ event = "yield" /\ Len(trace) >= 2
       /\ trace[Len(trace)] = "yield" /\ trace[Len(trace) - 1] = "yield"
    THEN trace
    ELSE Append(trace, event)

\* llm_node that leaves first_token set
first_token_after_chunk_kept == llm.first_token

\* llm_node, line 154: first_token = False
first_token_after_chunk == FALSE

\* llm_node, lines 148-155: one chunk of the model stream
LlmChunk ==
    /\ llm.pc = "streaming" /\ llm.rest # <<>>
    /\ \E k \in 1..Len(llm.rest) :
         /\ llm' = [llm EXCEPT !.first_token = first_token_after_chunk,
                               !.rest = DropFirst(llm.rest, k)]
         /\ text' = text \o SubSeq(llm.rest, 1, k)
    /\ IF llm.first_token
       THEN /\ timestamps' = mark(timestamps, "llm_first_token", "cur")
            /\ IF has_filler
               THEN /\ cancel_filler
                    /\ obs' = [obs EXCEPT !.trace = Log(Log(Log(@, "mark"), "cancel"), "yield")]
               ELSE /\ UNCHANGED <<tasks, playback_task>>
                    /\ obs' = [obs EXCEPT !.trace = Log(Log(@, "mark"), "yield")]
       ELSE /\ UNCHANGED <<timestamps, tasks, playback_task>>
            /\ obs' = [obs EXCEPT !.trace = Log(@, "yield")]
    /\ attempt' = IF llm.first_token /\ has_filler THEN NoAttempt ELSE attempt
    /\ UNCHANGED <<now, is_playing, current_emotion, played, fillers_config>>
    /\ UNCHANGED <<audio_source, has_filler, emotion_config, last_emotion, voice_controls, tts, synth>>

\* llm_node, line 157: the model stream is exhausted
LlmEnd ==
    /\ llm.pc = "streaming" /\ llm.rest = <<>>
    /\ llm' = [llm EXCEPT !.pc = "done"]
    /\ timestamps' = mark(timestamps, "llm_complete", "cur")
    /\ UNCHANGED <<now, fillerVars>>
    /\ UNCHANGED <<audio_source, has_filler, emotion_config, last_emotion, voice_controls, text, tts, synth, obs>>

\* tts_node, line 165: the pipeline starts tts_node on the text stream
TtsStart ==
    /\ llm.pc # "idle" /\ tts.pc = "idle"
    /\ tts' = [tts EXCEPT !.pc = "collecting"]
    /\ timestamps' = mark(timestamps, "tts_start", "cur")
    /\ UNCHANGED <<now, fillerVars>>
    /\ UNCHANGED <<audio_source, has_filler, emotion_config, last_emotion, voice_controls, llm, text, synth, obs>>

\* the text stream seen as ended as soon as the model stage has begun
TextStreamEnded_early == llm.pc \in {"streaming", "done"}

\* tts_node, lines 169-170: the loop over the text stream ends when
\* llm_node has returned
TextStreamEnded == llm.pc = "done"

\* resolve without the fallback: the label is used as it comes
resolve_strict(emotion) == emotion

\* emotion_config["emotions"].get(emotion, emotion_config["emotions"]["neutral"])
resolve(emotion) == IF emotion \in emotion_config THEN emotion ELSE "neutral"

\* line 196: the default of dict.get is evaluated before the lookup, so a
\* preset table without "neutral" raises KeyError for every emotion
ResolveRaises == "neutral" \notin emotion_config

\* tts_node, lines 167-214 and 223-231: the text stream has ended; parse
\* it, configure the voice and hand the text to the synthesis service
TtsParse ==
    /\ tts.pc = "collecting" /\ TextStreamEnded
    /\ LET full_text == text
           d == json_loads(StripFences(full_text))
       IN IF d.ok /\ d.kind = "dict"
          THEN LET emotion == Get(d.v, "emotion", "neutral")
                   intensity == Get(d.v, "intensity", DefaultIntensity)
                   message == Get(d.v, "message", full_text)
               IN /\ last_emotion' = emotion
                  /\ IF has_filler THEN set_emotion(emotion) ELSE UNCHANGED current_emotion
                  /\ IF ResolveRaises
                     THEN \* KeyError at line 196: the except branch
                          /\ tts' = [pc |-> "fallback", full_text |-> full_text,
                                     first_chunk |-> TRUE, path |-> "fallback",
                                     emotion |-> emotion, intensity |-> intensity,
                                     message |-> message]
                          /\ synth' = [calls |-> 1, input |-> full_text, audio |-> 0]
                          /\ obs' = [obs EXCEPT !.caught = "KeyError"]
                          /\ UNCHANGED voice_controls
                     ELSE /\ voice_controls' = resolve(emotion)
                          /\ tts' = [pc |-> "try", full_text |-> full_text,
                                     first_chunk |-> TRUE, path |-> "try",
                                     emotion |-> emotion, intensity |-> intensity,
                                     message |-> message]
                          /\ synth' = [calls |-> 1, input |-> message, audio |-> 0]
                          /\ UNCHANGED obs
          ELSE IF d.ok
          THEN \* response_data.get on a value that is no dict: AttributeError
               /\ tts' = [tts EXCEPT !.pc = "failed", !.full_text = full_text,
                                      !.path = "raise"]
               /\ obs' = [obs EXCEPT !.error = "AttributeError"]
               /\ UNCHANGED <<last_emotion, current_emotion, voice_controls, synth>>
          ELSE \* json.JSONDecodeError: the except branch
               /\ tts' = [tts EXCEPT !.pc = "fallback", !.full_text = full_text,
                                      !.path = "fallback"]
               /\ synth' = [calls |-> 1, input |-> full_text, audio |-> 0]
               /\ obs' = [obs EXCEPT !.caught = "JSONDecodeError"]
               /\ UNCHANGED <<last_emotion, current_emotion, voice_controls>>
    /\ text' = <<>>
    /\ UNCHANGED <<now, is_playing, playback_task, tasks, played, fillers_config, attempt>>
    /\ UNCHANGED <<audio_source, has_filler, emotion_config, timestamps, llm>>

\* tts_node that leaves first_chunk set
first_chunk_after_chunk_kept == tts.first_chunk

\* tts_node, lines 217 and 234: first_chunk = False
first_chunk_after_chunk == FALSE

\* tts_node, lines 214-218 and 231-235: one audio chunk is forwarded;
\* obs.tts_trace is what tts_node did after the parse, in program order
SynthChunk ==
    /\ tts.pc \in {"try", "fallback"} /\ synth.audio < MaxAudio
    /\ timestamps' = IF tts.first_chunk THEN mark(timestamps, "tts_first_chunk", "cur")
                                        ELSE timestamps
    /\ tts' = [tts EXCEPT !.first_chunk = first_chunk_after_chunk]
    /\ synth' = [synth EXCEPT !.audio = @ + 1]
    /\ obs' = [obs EXCEPT !.audio_after_error = IF obs.synth_errors > 0 THEN @ + 1 ELSE @,
                          !.tts_trace = IF tts.first_chunk THEN Log(Log(@, "mark"), "yield")
                                                           ELSE Log(@, "yield")]
    /\ UNCHANGED <<now, fillerVars>>
    /\ UNCHANGED <<audio_source, has_filler, emotion_config, last_emotion, voice_controls, llm, text>>

\* tts_node, lines 220-221 and 237-238: the audio stream has ended
SynthEnd ==
    /\ tts.pc \in {"try", "fallback"}
    /\ tts' = [tts EXCEPT !.pc = "done"]
    /\ log_latency(mark(timestamps, "tts_complete", "cur"),
                   [obs EXCEPT !.tts_trace = @ \o <<"mark_complete", "log_latency">>])
    /\ UNCHANGED <<now, fillerVars>>
    /\ UNCHANGED <<audio_source, has_filler, emotion_config, last_emotion, voice_controls, llm, text, synth>>

\* except (json.JSONDecodeError, KeyError), line 223
Caught(kind) == kind \in {"JSONDecodeError", "KeyError"}

\* the synthesis service raises while tts_node iterates over it
SynthError(kind) ==
    /\ tts.pc \in {"try", "fallback"}
    /\ IF tts.pc = "try" /\ Caught(kind)
       THEN \* the except branch: synthesize the original text; obs.caught
            \* is kept for what the parse step itself has raised
            /\ tts' = [tts EXCEPT !.pc = "fallback", !.first_chunk = TRUE]
            /\ synth' = [calls |-> synth.calls + 1, input |-> tts.full_text, audio |-> synth.audio]
            /\ obs' = [obs EXCEPT !.synth_errors = @ + 1, !.calls_after_error = @ + 1]
       ELSE \* the exception leaves tts_node
            /\ tts' = [tts EXCEPT !.pc = "failed"]
            /\ obs' = [obs EXCEPT !.synth_errors = @ + 1, !.error = kind]
            /\ UNCHANGED synth
    /\ UNCHANGED <<now, fillerVars>>
    /\ UNCHANGED <<audio_source, has_filler, emotion_config, last_emotion, voice_controls, timestamps, llm, text>>

SynthRaise == \E kind \in ErrorKinds : SynthError(kind)

\* entrypoint, lines 288-292: the session reports that the user's speech
\* has ended; the utterance belongs to the turn llm_node has yet to start
on_user_speech_committed ==
    /\ timestamps' = mark(timestamps, "user_speech_end", "next")
    /\ UNCHANGED <<now, fillerVars>>
    /\ UNCHANGED <<audio_source, has_filler, emotion_config, last_emotion, voice_controls,
                   llm, text, tts, synth, obs>>

\* entrypoint, lines 294-298: the session reports the final transcript
on_transcript_committed ==
    /\ timestamps' = mark(timestamps, "stt_finalized", "next")
    /\ UNCHANGED <<now, fillerVars>>
    /\ UNCHANGED <<audio_source, has_filler, emotion_config, last_emotion, voice_controls,
                   llm, text, tts, synth, obs>>

Init ==
    /\ now = 0
    /\ is_playing = FALSE
    /\ playback_task = NoTask
    /\ current_emotion = "neutral"
    /\ tasks = [t \in TaskIds |-> NoTaskRec]
    /\ played = 0
    /\ fillers_config = FillerCategories
    /\ attempt = NoAttempt
    /\ emotion_config = PresetTable
    /\ audio_source \in {None, "source"}
    /\ has_filler \in BOOLEAN
    /\ audio_source # None => has_filler
    /\ last_emotion = "neutral"
    /\ voice_controls = None
    /\ timestamps = NoMarks
    /\ llm = LlmIdle
    /\ text = <<>>
    /\ tts = TtsIdle
    /\ synth = SynthIdle
    /\ obs = ObsInit

\* the filler scheduler driven directly by a caller
InitFiller ==
    /\ Init
    /\ audio_source = "source"
    /\ has_filler

NextFiller ==
    \/ CallStart
    \/ CallCancel
    \/ FillerTimerFire
    \/ FillerTaskStep
    \/ FillerCaptureDone
    \/ ClockTick

SpecFiller == InitFiller /\ [][NextFiller]_vars

\* tts_node on any response text: the state once the model stream of a
\* turn has ended and tts_node waits at the end of its text stream
InitParse ==
    /\ now = 0
    /\ is_playing = FALSE
    /\ playback_task = NoTask
    /\ current_emotion = "neutral"
    /\ tasks = [t \in TaskIds |-> NoTaskRec]
    /\ played = 0
    /\ fillers_config = FillerCategories
    /\ attempt = NoAttempt
    /\ emotion_config = PresetTable
    /\ audio_source = None
    /\ has_filler \in BOOLEAN
    /\ last_emotion \in Emotions
    /\ voice_controls = None
    /\ text \in Texts
    /\ llm = [pc |-> "done", first_token |-> (text = <<>>), rest |-> <<>>]
    /\ timestamps = [e \in {"llm_start", "llm_complete", "tts_start"} \cup
                            (IF text = <<>> THEN {} ELSE {"llm_first_token"}) |->
                        [at |-> 0, turn |-> "cur"]]
    /\ tts = [TtsIdle EXCEPT !.pc = "collecting"]
    /\ synth = SynthIdle
    /\ obs = [ObsInit EXCEPT !.trace =
                 IF text = <<>> THEN <<>>
                 ELSE IF has_filler THEN <<"mark", "cancel", "yield">>
                 ELSE <<"mark", "yield">>,
                         !.response = text]

NextParse ==
    \/ TtsParse
    \/ SynthChunk
    \/ SynthEnd
    \/ SynthRaise

SpecParse == InitParse /\ [][NextParse]_vars

\* ------------------------------------------------- the tracker on its own
\* marks a caller may have in the timeline at once
MaxMarks == 2

\* a caller marks an event
ClockMark ==
    /\ \E e \in Events :
         /\ Cardinality(DOMAIN timestamps \cup {e}) <= MaxMarks
         /\ timestamps' = mark(timestamps, e, "cur")
    /\ obs' = ObsInit
    /\ UNCHANGED <<now, fillerVars>>
    /\ UNCHANGED <<audio_source, has_filler, emotion_config, last_emotion, voice_controls,
                   llm, text, tts, synth>>

\* a caller asks for the duration between two events; asking again right
\* away finds the same timeline
ClockDuration ==
    /\ obs.call.op # "get_duration"
    /\ \E a \in Events, b \in Events :
         obs' = [ObsInit EXCEPT !.call =
                    [op |-> "get_duration", before |-> timestamps,
                     start_event |-> a, end_event |-> b,
                     result |-> get_duration(timestamps, a, b)]]
    /\ UNCHANGED <<now, fillerVars>>
    /\ UNCHANGED <<audio_source, has_filler, emotion_config, last_emotion, voice_controls,
                   timestamps, llm, text, tts, synth>>

\* a caller asks for the report
ClockReport ==
    /\ log_latency(timestamps,
                   [ObsInit EXCEPT !.call = [op |-> "log_latency", before |-> timestamps]])
    /\ UNCHANGED <<now, fillerVars>>
    /\ UNCHANGED <<audio_source, has_filler, emotion_config, last_emotion, voice_controls,
                   llm, text, tts, synth>>

\* the marks of the report scenario, in ticks
ScenarioTimeline ==
    [e \in Events |->
        [at |-> CASE e = "user_speech_end" -> 0
                  [] e = "stt_finalized" -> 5
                  [] e = "llm_start" -> 6
                  [] e = "llm_first_token" -> 26
                  [] e = "llm_complete" -> 90
                  [] e = "tts_start" -> 91
                  [] e = "tts_first_chunk" -> 105
                  [] e = "tts_complete" -> 140,
         turn |-> "cur"]]

\* the tracker driven directly by a caller, from an empty timeline and
\* from the timeline of the report scenario
InitClock ==
    /\ timestamps \in {NoMarks, ScenarioTimeline}
    /\ now = IF timestamps = NoMarks THEN 0 ELSE ScenarioTimeline["tts_complete"].at
    /\ is_playing = FALSE
    /\ playback_task = NoTask
    /\ current_emotion = "neutral"
    /\ tasks = [t \in TaskIds |-> NoTaskRec]
    /\ played = 0
    /\ fillers_config = FillerCategories
    /\ attempt = NoAttempt
    /\ emotion_config = PresetTable
    /\ audio_source = None
    /\ has_filler = FALSE
    /\ last_emotion = "neutral"
    /\ voice_controls = None
    /\ llm = LlmIdle
    /\ text = <<>>
    /\ tts = TtsIdle
    /\ synth = SynthIdle
    /\ obs = ObsInit

NextClock ==
    \/ ClockMark
    \/ ClockDuration
    \/ ClockReport
    \/ ClockTick

SpecClock == InitClock /\ [][NextClock]_vars

\* the session as entrypoint wires it when no filler sounds are installed
\* (lines 253-262), with the listeners of the session's speech events
InitSession ==
    /\ Init
    /\ audio_source = None
    /\ ~has_filler

NextSession ==
    \/ on_user_speech_committed
    \/ on_transcript_committed
    \/ LlmStart
    \/ LlmChunk
    \/ LlmEnd
    \/ TtsStart
    \/ TtsParse
    \/ SynthChunk
    \/ SynthEnd
    \/ SynthRaise
    \/ ClockTick

SpecSession == InitSession /\ [][NextSession]_vars

\* load_emotion_config and FillerSoundManager.__init__ read the two tables
\* as they are: any table may be configured, with or without "neutral"
EmotionConfigs == {PresetTable, PresetTable \ {"neutral"}}
FillerConfigs == {FillerCategories, FillerCategories \ {"neutral"}}

\* the worker before entrypoint has run
Loading == [pc |-> "loading", first_token |-> TRUE, rest |-> <<>>]

\* entrypoint, lines 249-316: the manager and the agent are constructed
\* from the configuration and the session is started
entrypoint ==
    /\ llm = Loading
    /\ llm' = LlmIdle
    /\ UNCHANGED <<now, fillerVars>>
    /\ UNCHANGED <<audio_source, has_filler, emotion_config, last_emotion, voice_controls,
                   timestamps, text, tts, synth, obs>>

\* the session started from a configuration in which a table lacks
\* its "neutral" entry
InitConfig ==
    /\ now = 0
    /\ is_playing = FALSE
    /\ playback_task = NoTask
    /\ current_emotion = "neutral"
    /\ tasks = [t \in TaskIds |-> NoTaskRec]
    /\ played = 0
    /\ fillers_config \in FillerConfigs
    /\ attempt = NoAttempt
    /\ emotion_config \in EmotionConfigs
    /\ "neutral" \notin emotion_config \/ "neutral" \notin fillers_config
    /\ audio_source \in {None, "source"}
    /\ has_filler \in BOOLEAN
    /\ audio_source # None => has_filler
    /\ last_emotion = "neutral"
    /\ voice_controls = None
    /\ timestamps = NoMarks
    /\ llm = Loading
    /\ text = <<>>
    /\ tts = TtsIdle
    /\ synth = SynthIdle
    /\ obs = ObsInit

NextConfig ==
    \/ entrypoint
    \/ LlmStart
    \/ LlmChunk
    \/ LlmEnd
    \/ TtsStart
    \/ TtsParse
    \/ SynthChunk
    \/ SynthEnd
    \/ SynthRaise
    \/ FillerTimerFire
    \/ FillerTaskStep
    \/ FillerCaptureDone
    \/ ClockTick

SpecConfig == InitConfig /\ [][NextConfig]_vars

\* the session: turns run by the coordinator
Next ==
    \/ LlmStart
    \/ LlmChunk
    \/ LlmEnd
    \/ TtsStart
    \/ TtsParse
    \/ SynthChunk
    \/ SynthEnd
    \/ SynthRaise
    \/ FillerTimerFire
    \/ FillerTaskStep
    \/ FillerCaptureDone
    \/ ClockTick

Spec == Init /\ [][Next]_vars

\* ======================================================== the filler race
InPlayback(t) == tasks[t].st \in {"playing", "captured", "capfailed"}

\* C1: a race on which cancel_filler was called while it was Armed and its
\* timer had not expired never plays: its task never reaches playback, so
\* no frame of it is handed to the audio source.
C1_CancelledBeforeExpiryNeverPlays ==
    \A t \in TaskIds : tasks[t].note = "armed" => ~InPlayback(t)

\* cancel_filler has hit a race asleep on its timer; the CancelledError is
\* pending on the task
C1_Witness ==
    \E t \in TaskIds :
        /\ tasks[t].note = "armed" /\ tasks[t].st = "sleeping"
        /\ tasks[t].cancel /\ tasks[t].cancelBy = "cancel_filler"

\* C2 (as claimed): a race on which cancel_filler was called while it was
\* Playing is not interrupted: its task does not end before the frame has
\* been captured.
C2_CancelWhilePlayingIsNoOp ==
    [][\A t \in TaskIds :
          (tasks[t].note = "playing" /\ tasks[t].st = "playing") => tasks'[t].st # "done"]_vars

\* C3: at most one race is Armed or Playing; starting a race cancels the
\* previous one.
ActiveRaces == {t \in TaskIds : Armed(t) \/ Playing(t)}

C3_AtMostOneActiveRace == Cardinality(ActiveRaces) <= 1

\* start_filler_timer was called while the previous race was Playing
C3_Witness ==
    \E t \in TaskIds :
        /\ tasks[t].st = "playing" /\ tasks[t].cancelBy = "start_filler_timer"
        /\ playback_task # NoTask /\ Armed(playback_task)

\* ======================================================== the coordinator
\* entrypoint passes audio_source = None to the agent
EntrypointWired == audio_source = None

\* the first chunk of this turn has arrived, later than the trigger delay
DelayElapsedBeforeFirstChunk ==
    /\ llm.pc \in {"streaming", "done"} /\ ~llm.first_token
    /\ {"llm_start", "llm_first_token"} \subseteq DOMAIN timestamps
    /\ timestamps["llm_first_token"].at - timestamps["llm_start"].at > TriggerThreshold

\* C4 (as claimed): in a turn of the agent as entrypoint wires it, when
\* the trigger delay elapses before the first model chunk, the filler has
\* played exactly once in that turn.
C4_FillerPlaysOnceWhenModelIsLate ==
    (EntrypointWired /\ DelayElapsedBeforeFirstChunk) => played = 1

\* C5 (as claimed): tts_start is marked after llm_complete, and the
\* reported llm_complete -> tts_start duration is never negative.
C5_SynthesisStartAfterModelComplete ==
    /\ (llm.pc = "done" /\ tts.pc # "idle"
          /\ {"llm_complete", "tts_start"} \subseteq DOMAIN timestamps)
        => timestamps["tts_start"].at >= timestamps["llm_complete"].at
    /\ "llm_to_tts" \in DOMAIN obs.report => obs.report["llm_to_tts"] >= 0

\* C6 (as claimed): a turn that ends because the synthesis service failed
\* has run log_latency: the timeline was reported and is empty.
C6_ReportRunsOnSynthesisFailure ==
    (tts.pc = "failed" /\ obs.synth_errors > 0)
        => (obs.reports >= 1 /\ timestamps = NoMarks)

\* C7 (as claimed): after an error of the synthesis service, of any kind,
\* the turn is over: the service is not invoked again and no further audio
\* chunk is forwarded.
C7_SynthesisErrorAbortsTurn ==
    obs.synth_errors > 0
        => (tts.pc = "failed" /\ obs.calls_after_error = 0 /\ obs.audio_after_error = 0)

\* what json.loads makes of the fence-stripped text
Decoded(full_text) == json_loads(StripFences(full_text))
DecodesToObject(full_text) == Decoded(full_text).ok /\ Decoded(full_text).kind = "dict"

\* C8 (as claimed): a response that does not decode to an object does not
\* abort the turn: the parse step takes the fallback and the original text
\* is what the synthesis service is given.
C8_UndecodableTextFallsBack ==
    (tts.path # "none" /\ ~DecodesToObject(tts.full_text))
        => (tts.path = "fallback" /\ synth.calls >= 1 /\ synth.input = tts.full_text)

\* a well-formed payload, bare or in a fenced block with one of the tags
WellFormed(tags) ==
    {[text |-> Wrap(w1, fence[1], w2, <<Obj(p)>>, w3, fence[2], w4), payload |-> p] :
        p \in FullPayloads, w1 \in WsRuns, w2 \in WsRuns, w3 \in WsRuns, w4 \in WsRuns,
        fence \in {<<<<>>, <<>>>>} \cup {<<<<F>> \o tag, <<F>>>> : tag \in tags}}

\* the payload of each well-formed text
PayloadOf(wellformed) ==
    [t \in {wf.text : wf \in wellformed} |->
        (CHOOSE wf \in wellformed : wf.text = t).payload]

\* the well-formed texts the claim speaks of, and those of its amendment
WellFormedAnyTag == PayloadOf(WellFormed({<<>>, <<J>>, <<P>>}))
WellFormedJsonTag == PayloadOf(WellFormed({<<>>, <<J>>}))

Recovered(wellformed) ==
    (tts.path # "none" /\ tts.full_text \in DOMAIN wellformed) =>
        /\ tts.path = "try"
        /\ tts.emotion = wellformed[tts.full_text].emotion
        /\ tts.intensity = wellformed[tts.full_text].intensity
        /\ tts.message = wellformed[tts.full_text].message

\* C9 (as claimed): a well-formed payload, bare or fenced with no tag or
\* any language tag, with or without whitespace around it, is recovered.
C9_AnyTagRecovered == Recovered(WellFormedAnyTag)

\* C9 (amended): a well-formed payload, bare or fenced with no tag or the
\* tag json, with or without whitespace around it, is recovered: the parse
\* step takes the try branch with exactly the payload's three values.
C9_JsonTagRecovered == Recovered(WellFormedJsonTag)

\* a json-fenced payload with whitespace everywhere has been parsed
C9_Witness ==
    \E p \in FullPayloads :
        /\ tts.path = "try" /\ tts.emotion = "furious"
        /\ tts.full_text = Wrap(Ws(1), <<F, J>>, Ws(1), <<Obj(p)>>, Ws(1), <<F>>, Ws(1))

\* the emotion a response results in: decoded, or neutral
ResultEmotion(full_text) ==
    IF DecodesToObject(full_text)
    THEN Get(Decoded(full_text).v, "emotion", "neutral")
    ELSE "neutral"

\* C10 (as claimed): once a turn's parse step has run, last_emotion is the
\* emotion that turn resulted in, neutral on a parse failure, and a race
\* armed for the next turn carries last_emotion as its hint.
C10_LastEmotionIsResultEmotion ==
    [][/\ tts'.path # "none" => last_emotion' = ResultEmotion(tts'.full_text)
       /\ \A t \in TaskIds : (tasks[t].st = "done" /\ tasks'[t].st = "new")
                                 => tasks'[t].emotion = last_emotion']_vars

\* ===================================================== the voice parameters
\* C11 (as claimed): whenever the synthesis service has been invoked in a
\* turn, parsed or not, the voice controls in force are the preset resolved
\* from the emotion that turn resulted in; no preset of an earlier turn is
\* left in force.
C11_VoiceIsPresetOfResultEmotion ==
    synth.calls >= 1 => voice_controls = resolve(ResultEmotion(tts.full_text))

\* C12: the preset applied for a decoded emotion is the one configured for
\* that label when the preset table has it, and the neutral preset for
\* every label the table does not have.
C12_ResolveFallsBackToNeutral ==
    tts.path = "try" =>
        /\ tts.emotion \in PresetTable => voice_controls = tts.emotion
        /\ tts.emotion \notin PresetTable => voice_controls = "neutral"

\* a response with the emotion furious, which has no preset, was parsed
C12_Witness ==
    /\ tts.path = "try" /\ tts.emotion = "furious" /\ "furious" \notin emotion_config
    /\ voice_controls = "neutral"

\* ======================================================== filler playback
\* the category the hint stands for: its own, or neutral
HintCategory(hint) == IF hint \in FillerCategories THEN hint ELSE "neutral"

\* C13 (as claimed): the asset a race selects when its timer expires names
\* an asset of the catalog, and it belongs to the category of the race's
\* emotion hint, or to neutral when the hint is unrecognized or absent.
C13_FillerAssetFromHintCategory ==
    attempt.path # NoPath =>
        /\ AssetExists(attempt.path)
        /\ attempt.path.prefix = HintCategory(attempt.hint)

\* C14: after a playback that failed (asset missing or unreadable, frame
\* rejected by the audio source) the scheduler is idle as if nothing had
\* played: is_playing is clear and no task is left in playback.
C14_PlaybackFailureEndsIdle ==
    attempt.result \in {"missing", "unreadable", "rejected"} =>
        /\ ~is_playing
        /\ \A t \in TaskIds : ~InPlayback(t)

\* the audio source has rejected a frame and the task has handled it
C14_Witness ==
    /\ attempt.result = "rejected" /\ AssetExists(attempt.path)
    /\ ~is_playing

\* ===================================================== the first model chunk
\* what llm_node does on the first chunk, with and without a filler manager
FirstChunkEvents ==
    IF has_filler THEN <<"mark", "cancel", "yield">> ELSE <<"mark", "yield">>

\* C15: in a turn, llm_first_token is marked and cancel_filler is called
\* once each, on the first chunk and before it is forwarded, the mark
\* first; the chunks after it are forwarded without a mark or a cancel.
C15_FirstTokenMarkThenCancelOnce ==
    llm.pc \in {"streaming", "done"} =>
        /\ obs.trace \in {<<>>, FirstChunkEvents, Append(FirstChunkEvents, "yield")}
        /\ text # <<>> => obs.trace # <<>>

\* a second chunk has been forwarded in a turn that has a filler manager
C15_Witness ==
    /\ has_filler /\ llm.pc = "streaming"
    /\ obs.trace = <<"mark", "cancel", "yield", "yield">>
    /\ "llm_first_token" \in DOMAIN timestamps

\* ============================================================ the timeline
\* C16 (as claimed): when log_latency runs at the end of a turn, every mark
\* in the timeline was recorded by that turn, so the report uses no mark
\* of another turn and the clearing erases none.
C16_TimelinePrivateToTurn ==
    [][obs'.reports > obs.reports =>
          \A e \in DOMAIN timestamps : timestamps[e].turn = "cur"]_vars

\* the timeline a call of the tracker found
Before == obs.call.before

\* both events are marked in the timeline ts
BothMarked(ts, a, b) == a \in DOMAIN ts /\ b \in DOMAIN ts

\* C17: when log_latency has returned the timeline is empty, whatever it
\* held and whether or not a duration was shown; called on an empty
\* timeline it does nothing: no report is written.
C17_ReportEmptiesTimeline ==
    obs.call.op = "log_latency" =>
        /\ timestamps = NoMarks
        /\ Before = NoMarks => (obs.reports = 0 /\ obs.report = NoMarks)
        /\ Before # NoMarks => obs.reports = 1

\* log_latency has run on a timeline with one mark: no duration was shown
C17_Witness ==
    /\ obs.call.op = "log_latency" /\ Cardinality(DOMAIN Before) = 1
    /\ obs.reports = 1 /\ obs.report = NoMarks /\ timestamps = NoMarks

\* C18: get_duration(a, b) is 0 when a or b is not marked; when both are
\* it is the time of b minus the time of a in milliseconds, negative when
\* b was marked before a; the timeline is left as it was.
C18_DurationOfMarks ==
    obs.call.op = "get_duration" =>
        LET a == obs.call.start_event
            b == obs.call.end_event
            ms == obs.call.result
        IN /\ ~BothMarked(Before, a, b) => ms = 0
           /\ BothMarked(Before, a, b) =>
                 /\ ms * TicksPerSecond = (Before[b].at - Before[a].at) * 1000
                 /\ Before[b].at < Before[a].at => ms < 0
           /\ timestamps = Before

\* a duration was asked for whose end was marked before its start
C18_Witness ==
    /\ obs.call.op = "get_duration"
    /\ BothMarked(Before, obs.call.start_event, obs.call.end_event)
    /\ Before[obs.call.end_event].at < Before[obs.call.start_event].at
    /\ obs.call.result < 0

\* the eight durations of the report: from, to
NamedDurations ==
    { <<"user_speech_end", "stt_finalized">>,
      <<"stt_finalized", "llm_start">>,
      <<"llm_start", "llm_first_token">>,
      <<"llm_start", "llm_complete">>,
      <<"llm_complete", "tts_start">>,
      <<"tts_start", "tts_first_chunk">>,
      <<"tts_start", "tts_complete">>,
      <<"user_speech_end", "tts_first_chunk">> }

\* the durations a report shows: from, to, milliseconds
Shown(report) ==
    {<<Durations[d][1], Durations[d][2], report[d]>> : d \in DOMAIN report}

\* C19: the report shows each of the eight named durations exactly when
\* both its marks are present, as end minus start in milliseconds; for the
\* scenario's marks it shows 10 ms from transcript to model start, 200 ms
\* to the first token and 1050 ms end to end.
C19_ReportShowsNamedDurations ==
    (obs.call.op = "log_latency" /\ Before # NoMarks) =>
        /\ Shown(obs.report) =
              {<<p[1], p[2], ((Before[p[2]].at - Before[p[1]].at) * 1000) \div TicksPerSecond>> :
                  p \in {q \in NamedDurations : BothMarked(Before, q[1], q[2])}}
        /\ Before = ScenarioTimeline =>
              /\ obs.report["stt_to_llm"] = 10
              /\ obs.report["llm_ttft"] = 200
              /\ obs.report["total_latency"] = 1050

\* the scenario's timeline has been reported
C19_Witness ==
    /\ obs.call.op = "log_latency" /\ Before = ScenarioTimeline
    /\ Cardinality(DOMAIN obs.report) = 8
    /\ obs.report["total_latency"] = 1050

\* ======================================================= the configuration
ConfigHasNeutral == "neutral" \in emotion_config /\ "neutral" \in fillers_config

\* the lookup of "neutral" has failed inside a turn: at resolve time in
\* tts_node, or at filler selection in the filler task
NeutralMissedInTurn ==
    \/ tts.path = "fallback" /\ obs.caught = "KeyError" /\ obs.synth_errors = 0
    \/ attempt.result = "KeyError"

\* C20 (as claimed): with a preset table or a filler catalog that lacks
\* "neutral" the startup is aborted: the session never leaves loading, and
\* the missing entry never surfaces inside a turn.
C20_MissingNeutralAbortsStartup ==
    ~ConfigHasNeutral => (llm = Loading /\ ~NeutralMissedInTurn)

\* ================================================= cancel with no race active
\* C21: cancel_filler called while no race is armed or playing (none was
\* started, the last one was cancelled or has finished) leaves the
\* scheduler as it found it; so does a call that comes right after
\* another call of cancel_filler.
C21_CancelWithoutRaceIsNoOp ==
    obs.call.op = "cancel_filler" =>
        /\ ~obs.call.live => ~obs.call.changed
        /\ obs.call.again => ~obs.call.changed

\* cancel_filler was called twice in a row on a race that had finished:
\* playback_task still holds the finished task
C21_Witness ==
    /\ obs.call.op = "cancel_filler" /\ obs.call.again
    /\ ~obs.call.live /\ obs.call.found = "done"
    /\ playback_task # NoTask /\ TaskDone(playback_task)

\* ================================================== synthesis after the parse
\* C22: in a turn, once the synthesis service has been invoked or an audio
\* chunk forwarded, the model's text stream has ended, all of it has been
\* read into full_text and the parse step has taken its branch.
C22_SynthesisAfterParse ==
    (synth.calls >= 1 \/ synth.audio >= 1) =>
        /\ llm.pc = "done" /\ llm.rest = <<>> /\ text = <<>>
        /\ tts.path \in {"try", "fallback"}
        /\ tts.full_text = obs.response

\* audio is forwarded for a fenced response of four tokens
C22_Witness ==
    /\ synth.audio >= 1 /\ tts.path = "try"
    /\ Len(obs.response) = 4 /\ tts.full_text = obs.response

\* ================================================ the end of the synthesis
\* what tts_node does for an audio stream of zero, one, two or more
\* chunks that ends without an error
CompletedStream ==
    {<<"mark_complete", "log_latency">>,
     <<"mark", "yield", "mark_complete", "log_latency">>,
     <<"mark", "yield", "yield", "mark_complete", "log_latency">>}

\* C23: in a turn whose synthesis ends without an error, on the parsed and
\* on the fallback path, tts_first_chunk is marked on the first audio chunk
\* and on no other, tts_complete is marked after the last chunk and
\* log_latency is then called, once: the turn has one report, made with
\* tts_complete in the timeline.
C23_CompleteMarkThenOneReport ==
    obs.synth_errors = 0 =>
        /\ tts.pc \in {"try", "fallback"} =>
              /\ obs.tts_trace \in {<<>>, <<"mark", "yield">>, <<"mark", "yield", "yield">>}
              /\ obs.reports = 0
        /\ tts.pc = "done" =>
              /\ tts.path \in {"try", "fallback"}
              /\ obs.tts_trace \in CompletedStream
              /\ obs.reports = 1
              /\ "tts_total" \in DOMAIN obs.report
              /\ "tts_ttfc" \in DOMAIN obs.report
                    => obs.report["tts_total"] >= obs.report["tts_ttfc"]

\* a fallback turn has ended after two audio chunks
C23_Witness ==
    /\ tts.pc = "done" /\ tts.path = "fallback" /\ obs.synth_errors = 0
    /\ synth.audio = 2 /\ obs.reports = 1
    /\ obs.tts_trace = <<"mark", "yield", "yield", "mark_complete", "log_latency">>

\* ===================================================== the synthesized text
\* C24 (as claimed): in a turn whose response decodes to an object, one
\* text is given to the synthesis service: the object's message, or the
\* untrimmed full text when the object has no message.
C24_DecodedMessageIsSynthesized ==
    (DecodesToObject(tts.full_text) /\ synth.calls >= 1) =>
        /\ synth.calls = 1
        /\ synth.input = Get(Decoded(tts.full_text).v, "message", tts.full_text)

\* ======================================================== the playing flag
\* C25 (as claimed): is_playing is set only while a playback is in flight:
\* whenever no task is in playback, however the last attempt ended, the
\* flag is clear and cannot suppress a later race.
C25_PlayingFlagOnlyDuringPlayback ==
    is_playing => \E t \in TaskIds : InPlayback(t)

\* ================================================ the race after the model
\* C26 (as claimed): once llm_node has finished, the race it armed for
\* the turn is no longer pending: it was cancelled or has begun to play,
\* also in a turn whose model stream brought no chunk.
C26_NoRacePendingAfterModelStream ==
    llm.pc = "done" => \A t \in TaskIds : ~Armed(t)
====
